---- MODULE Spec2Model ----
(***************************************************************************)
(* MediaController (src/MediaController.py): an adapter that drives the    *)
(* MPRIS media players found on the D-Bus session bus.  The controller     *)
(* keeps three fields (mpris_players, _previously_playing,                 *)
(* _last_active_player) and one memo table (the lru_cache of               *)
(* get_web_thumnail); everything else is state of the remote players.      *)
(*                                                                         *)
(* Python values are written as strings: None is "None", True is "True",   *)
(* False is "False"; no display name or playback status is spelled like    *)
(* one of them.  A value that is either None or a list is a record         *)
(* [is_none, items].                                                       *)
(***************************************************************************)
EXTENDS Integers, Sequences, FiniteSets, TLC

VARIABLES
    mpris_players,        \* self.mpris_players: the proxies of the last successful refresh
    previously_playing,   \* self._previously_playing: set of bus names
    last_active_player,   \* self._last_active_player: a display name or None
    web_cache,            \* lru_cache of get_web_thumnail: url -> returned path or None
    playback,             \* remote: PlaybackStatus of every player
    faults,               \* remote: the D-Bus calls that currently raise
    last,                 \* the last public call: its arguments, the state it started in,
                          \* the remote method calls it made, the per-player results and what it returned
    found_playing,        \* history: the players the last pause that found any playing
                          \* found playing; none once a play has completed
    arg                   \* the list handed to compress_list when it is called on its own

vars == <<mpris_players, previously_playing, last_active_player, web_cache,
          playback, faults, last, found_playing, arg>>

-----------------------------------------------------------------------------
(* Bounds *)

NumPlayers == 2      \* MPRIS players on the session bus
MaxLen == 3          \* longest list handed to compress_list on its own

-----------------------------------------------------------------------------
(* Python values *)

None == "None"
PyTrue == "True"
PyFalse == "False"

RetNone == [is_none |-> TRUE, items |-> <<>>]
RetList(s) == [is_none |-> FALSE, items |-> s]
\* a str-or-None return
RetStr(x) == IF x = None THEN RetNone ELSE [is_none |-> FALSE, items |-> x]

-----------------------------------------------------------------------------
(* The session bus and the remote players *)

MprisPrefix == "org.mpris.MediaPlayer2"
ObjectPath == "/org/mpris/MediaPlayer2"

Players == 1..NumPlayers

\* session_bus.list_names(): every name on the bus, MPRIS or not
list_names ==
    <<  <<"org.freedesktop.DBus", 0>> >> \o [p \in 1..NumPlayers |-> <<MprisPrefix, p>>]

\* session_bus.get_object(name, '/org/mpris/MediaPlayer2')
get_object(name) == [bus_name |-> name, object_path |-> ObjectPath]

\* The remote player behind a proxy
Remote(player) == player.bus_name[2]

\* Identity property of a player: players of the same application share it
Identity(p) == IF p % 2 = 1 THEN "vlc" ELSE "mpv"

Names == {"vlc", "mpv"}
Filters == {None, ""} \cup Names
Statuses == {"Playing", "Paused", "Stopped"}

\* The calls that can raise: list_names on the bus and requests.get (0), and per
\* player the Identity property, the properties of the Player interface, and the
\* Player methods
FaultPoints ==
    {<<0, "ListNames">>, <<0, "Http">>}
    \cup (Players \X {"Identity", "PlayerProperty", "PlayerMethod"})

\* Metadata property of a player.  The artwork reference is kept in parts: whether
\* the key is there, what the string starts with, the encoding of a data: URI, what
\* is left once "file://" is removed, and the buffer a base64 payload decodes to.
NoArt == [present |-> FALSE, scheme |-> "", encoding |-> "", rest |-> "", bytes |-> ""]
Metadata(p) ==
    CASE p % 4 = 1 ->
           [has_title |-> TRUE, title |-> "Song", has_artist |-> TRUE, artist |-> <<"Band">>,
            art_url |-> [NoArt EXCEPT !.present = TRUE, !.scheme = "https",
                                      !.rest = "https://host/cover.jpg"]]
      [] p % 4 = 2 ->
           [has_title |-> FALSE, title |-> "", has_artist |-> TRUE, artist |-> <<>>,
            art_url |-> NoArt]
      [] p % 4 = 3 ->
           [has_title |-> TRUE, title |-> "Song", has_artist |-> TRUE,
            artist |-> <<"Band", "Guest">>,
            art_url |-> [NoArt EXCEPT !.present = TRUE, !.scheme = "file://",
                                      !.rest = "/x/y.png"]]
      [] OTHER ->
           [has_title |-> TRUE, title |-> "Talk", has_artist |-> FALSE, artist |-> <<>>,
            art_url |-> [NoArt EXCEPT !.present = TRUE, !.scheme = "data:",
                                      !.encoding = "base64", !.bytes = "BytesIO"]]

\* properties.Get('org.mpris.MediaPlayer2.Player', 'Metadata'): [raised, value]
Get_Metadata(player, env) ==
    IF <<Remote(player), "PlayerProperty">> \in env.faults
    THEN [raised |-> TRUE, value |-> Metadata(Remote(player))]
    ELSE [raised |-> FALSE, value |-> Metadata(Remote(player))]

\* download_file: the local path of the downloaded image, None when the request fails
download_file(env, url) ==
    IF <<0, "Http">> \in env.faults THEN None ELSE "cache/cover.jpeg"

\* properties.Get('org.mpris.MediaPlayer2', 'Identity'): [raised, value]
Get_Identity(player, env) ==
    IF <<Remote(player), "Identity">> \in env.faults
    THEN [raised |-> TRUE, value |-> None]
    ELSE [raised |-> FALSE, value |-> Identity(Remote(player))]

\* properties.Get('org.mpris.MediaPlayer2.Player', 'PlaybackStatus'): [raised, value]
Get_PlaybackStatus(player, env) ==
    IF <<Remote(player), "PlayerProperty">> \in env.faults
    THEN [raised |-> TRUE, value |-> None]
    ELSE [raised |-> FALSE, value |-> env.playback[Remote(player)]]

\* What a player's status becomes when a Player method reaches it
Effect(method, status) ==
    CASE method = "Pause" -> (IF status = "Playing" THEN "Paused" ELSE status)
      [] method = "Play"  -> "Playing"
      [] method = "Stop"  -> "Stopped"
      [] OTHER            -> status

\* iface.Pause(), iface.Play(), iface.Stop(), iface.Next(), iface.Previous():
\* [raised, env], env being the remote state after the call
Call(method, iface, env) ==
    IF <<Remote(iface), "PlayerMethod">> \in env.faults
    THEN [raised |-> TRUE, env |-> env]
    ELSE [raised |-> FALSE,
          env |-> [env EXCEPT !.playback[Remote(iface)] = Effect(method, @)]]

-----------------------------------------------------------------------------
(* The controller.  Every operation takes the whole state s (the controller's
   fields and the remote players) and returns the state it leaves, what it
   returns and the Player methods it invoked, in order. *)

RECURSIVE filter_mpris(_, _)
\* the loop of update_players over list_names, from name i on
filter_mpris(names, i) ==
    IF i > Len(names) THEN <<>>
    ELSE (IF names[i][1] = MprisPrefix THEN <<get_object(names[i])>> ELSE <<>>)
         \o filter_mpris(names, i + 1)

update_players(s) ==
    IF <<0, "ListNames">> \in s.faults
    THEN s
    ELSE [s EXCEPT !.mpris_players = filter_mpris(list_names, 1)]

_get_bus_name(player) == player.bus_name

\* str or None: a failed read is None
_get_playback_status(iface, s) ==
    LET r == Get_PlaybackStatus(iface, s) IN IF r.raised THEN None ELSE r.value

\* player_name in [None, "", Identity]; the list is built first, so Identity is read
\* whatever player_name is, and a failed read skips the player
Matches(player, player_name, s) ==
    LET r == Get_Identity(player, s)
    IN  ~r.raised /\ player_name \in {None, "", r.value}

RECURSIVE matching_ifaces_loop(_, _, _, _)
matching_ifaces_loop(players, i, player_name, s) ==
    IF i > Len(players) THEN <<>>
    ELSE (IF Matches(players[i], player_name, s) THEN <<players[i]>> ELSE <<>>)
         \o matching_ifaces_loop(players, i + 1, player_name, s)

\* [s, ifaces]
get_matching_ifaces(s, player_name) ==
    LET s1 == update_players(s)
    IN  [s |-> s1, ifaces |-> matching_ifaces_loop(s1.mpris_players, 1, player_name, s1)]

RECURSIVE matching_players_loop(_, _, _, _)
matching_players_loop(players, i, player_name, s) ==
    IF i > Len(players) THEN <<>>
    ELSE (IF Matches(players[i], player_name, s)
          THEN << <<_get_bus_name(players[i]), players[i]>> >>
          ELSE <<>>)
         \o matching_players_loop(players, i + 1, player_name, s)

\* [s, players], players a list of (bus_name, iface)
get_matching_players(s, player_name) ==
    LET s1 == update_players(s)
    IN  [s |-> s1, players |-> matching_players_loop(s1.mpris_players, 1, player_name, s1)]

RECURSIVE count_equal(_, _, _)
\* first_element_occurrences after the loop of all_equal, from element i on
count_equal(iterable, i, first_element) ==
    IF i > Len(iterable) THEN 0
    ELSE (IF iterable[i] = first_element THEN 1 ELSE 0)
         + count_equal(iterable, i + 1, first_element)

\* all_equal, were it to compare only the two ends of the list
all_equal_ends(iterable) ==
    IF Cardinality({iterable[i] : i \in 1..Len(iterable)}) = 0
    THEN TRUE
    ELSE iterable[Len(iterable)] = iterable[1]

all_equal(iterable) ==
    IF Cardinality({iterable[i] : i \in 1..Len(iterable)}) = 0
    THEN TRUE
    ELSE count_equal(iterable, 1, iterable[1]) = Len(iterable)

compress_list(_list) ==
    IF Len(_list) = 0 THEN RetNone
    ELSE IF all_equal(_list) THEN RetList(<<_list[1]>>)
    ELSE RetList(_list)

RECURSIVE pause_loop_if_playing(_, _, _)
\* pause_loop, were iface.Pause() inside the test for "Playing"
pause_loop_if_playing(players, i, acc) ==
    IF i > Len(players) THEN acc
    ELSE LET bus_name == players[i][1]
             iface == players[i][2]
             is_playing == _get_playback_status(iface, acc.s) = "Playing"
             r == IF is_playing THEN Call("Pause", iface, acc.s)
                                ELSE [raised |-> FALSE, env |-> acc.s]
         IN  pause_loop_if_playing(players, i + 1,
                 [s |-> r.env,
                  currently_playing |-> IF is_playing
                                        THEN acc.currently_playing \cup {bus_name}
                                        ELSE acc.currently_playing,
                  status |-> Append(acc.status, IF r.raised THEN PyFalse ELSE PyTrue),
                  calls |-> IF is_playing THEN Append(acc.calls, <<"Pause", bus_name>>)
                                          ELSE acc.calls])

RECURSIVE pause_loop(_, _, _)
\* the loop of pause, from target i on; acc = [s, currently_playing, status, calls]
pause_loop(players, i, acc) ==
    IF i > Len(players) THEN acc
    ELSE LET bus_name == players[i][1]
             iface == players[i][2]
             playback_status == _get_playback_status(iface, acc.s)
             currently_playing ==
                 IF playback_status = "Playing"
                 THEN acc.currently_playing \cup {bus_name}
                 ELSE acc.currently_playing
             r == Call("Pause", iface, acc.s)
         IN  pause_loop(players, i + 1,
                 [s |-> r.env,
                  currently_playing |-> currently_playing,
                  status |-> Append(acc.status, IF r.raised THEN PyFalse ELSE PyTrue),
                  calls |-> Append(acc.calls, <<"Pause", bus_name>>)])

\* pause, were the players found playing added to the remembered ones
pause_merging(s, player_name) ==
    LET m == get_matching_players(s, player_name)
        acc == pause_loop(m.players, 1,
                   [s |-> m.s, currently_playing |-> {}, status |-> <<>>, calls |-> <<>>])
        s2 == [acc.s EXCEPT !.previously_playing = @ \cup acc.currently_playing]
    IN  [s |-> s2, ret |-> compress_list(acc.status), calls |-> acc.calls,
         raw |-> acc.status]

pause(s, player_name) ==
    LET m == get_matching_players(s, player_name)
        acc == pause_loop(m.players, 1,
                   [s |-> m.s, currently_playing |-> {}, status |-> <<>>, calls |-> <<>>])
        s2 == IF acc.currently_playing # {}
              THEN [acc.s EXCEPT !.previously_playing = acc.currently_playing]
              ELSE acc.s
    IN  [s |-> s2, ret |-> compress_list(acc.status), calls |-> acc.calls,
         raw |-> acc.status]

RECURSIVE play_loop_everyone(_, _, _, _)
\* play_loop, were the remembered set never consulted
play_loop_everyone(players, i, player_name, acc) ==
    IF i > Len(players) THEN acc
    ELSE LET bus_name == players[i][1]
             r == Call("Play", players[i][2], acc.s)
         IN  play_loop_everyone(players, i + 1, player_name,
                 [s |-> r.env,
                  status |-> Append(acc.status, IF r.raised THEN PyFalse ELSE PyTrue),
                  calls |-> Append(acc.calls, <<"Play", bus_name>>)])

RECURSIVE play_loop(_, _, _, _)
\* the loop of play, from target i on; acc = [s, status, calls]
play_loop(players, i, player_name, acc) ==
    IF i > Len(players) THEN acc
    ELSE LET bus_name == players[i][1]
             iface == players[i][2]
             invoke == \/ player_name # None
                       \/ acc.s.previously_playing = {}
                       \/ bus_name \in acc.s.previously_playing
             r == IF invoke THEN Call("Play", iface, acc.s)
                            ELSE [raised |-> FALSE, env |-> acc.s]
         IN  play_loop(players, i + 1, player_name,
                 [s |-> r.env,
                  status |-> Append(acc.status, IF r.raised THEN PyFalse ELSE PyTrue),
                  calls |-> IF invoke THEN Append(acc.calls, <<"Play", bus_name>>)
                                      ELSE acc.calls])

\* play, were the remembered set cleared by an unscoped play only
play_scoped_keeps(s, player_name) ==
    LET m == get_matching_players(s, player_name)
        acc == play_loop(m.players, 1, player_name,
                   [s |-> m.s, status |-> <<>>, calls |-> <<>>])
    IN  [s |-> IF player_name = None THEN [acc.s EXCEPT !.previously_playing = {}] ELSE acc.s,
         ret |-> compress_list(acc.status), calls |-> acc.calls, raw |-> acc.status]

play(s, player_name) ==
    LET m == get_matching_players(s, player_name)
        acc == play_loop(m.players, 1, player_name,
                   [s |-> m.s, status |-> <<>>, calls |-> <<>>])
    IN  [s |-> [acc.s EXCEPT !.previously_playing = {}],
         ret |-> compress_list(acc.status), calls |-> acc.calls, raw |-> acc.status]

\* any_playing, were only the first target looked at
any_playing_first(players, i, s) ==
    i <= Len(players) /\ _get_playback_status(players[i][2], s) = "Playing"

RECURSIVE any_playing(_, _, _)
\* the scan of toggle, from target i on: stops at the first "Playing"
any_playing(players, i, s) ==
    IF i > Len(players) THEN FALSE
    ELSE IF _get_playback_status(players[i][2], s) = "Playing" THEN TRUE
    ELSE any_playing(players, i + 1, s)

toggle(s, player_name) ==
    LET m == get_matching_players(s, player_name)
    IN  IF any_playing(m.players, 1, m.s)
        THEN pause(m.s, player_name) @@ [handler |-> "pause"]
        ELSE play(m.s, player_name) @@ [handler |-> "play"]

RECURSIVE command_loop_aborting(_, _, _, _)
\* command_loop, were a failed call to end the loop
command_loop_aborting(method, ifaces, i, acc) ==
    IF i > Len(ifaces) THEN acc
    ELSE LET r == Call(method, ifaces[i], acc.s)
             acc2 == [s |-> r.env,
                      status |-> Append(acc.status, IF r.raised THEN PyFalse ELSE PyTrue),
                      calls |-> Append(acc.calls, <<method, _get_bus_name(ifaces[i])>>)]
         IN  IF r.raised THEN acc2
             ELSE command_loop_aborting(method, ifaces, i + 1, acc2)

RECURSIVE command_loop(_, _, _, _)
\* the loop of stop, next and previous, from target i on; acc = [s, status, calls]
command_loop(method, ifaces, i, acc) ==
    IF i > Len(ifaces) THEN acc
    ELSE LET r == Call(method, ifaces[i], acc.s)
         IN  command_loop(method, ifaces, i + 1,
                 [s |-> r.env,
                  status |-> Append(acc.status, IF r.raised THEN PyFalse ELSE PyTrue),
                  calls |-> Append(acc.calls, <<method, _get_bus_name(ifaces[i])>>)])

\* command, were stop, next and previous to forget the remembered set
command_forgetting(method, s, player_name) ==
    LET m == get_matching_ifaces(s, player_name)
        acc == command_loop(method, m.ifaces, 1, [s |-> m.s, status |-> <<>>, calls |-> <<>>])
    IN  [s |-> [acc.s EXCEPT !.previously_playing = {}],
         ret |-> compress_list(acc.status), calls |-> acc.calls, raw |-> acc.status]

command(method, s, player_name) ==
    LET m == get_matching_ifaces(s, player_name)
        acc == command_loop(method, m.ifaces, 1, [s |-> m.s, status |-> <<>>, calls |-> <<>>])
    IN  [s |-> acc.s, ret |-> compress_list(acc.status), calls |-> acc.calls,
         raw |-> acc.status]

stop(s, player_name) == command("Stop", s, player_name)
next(s, player_name) == command("Next", s, player_name)
previous(s, player_name) == command("Previous", s, player_name)

-----------------------------------------------------------------------------
(* The queries *)

RECURSIVE active_player_loop_unmarked(_, _, _)
\* active_player_loop, were the name returned without being remembered
active_player_loop_unmarked(players, i, s) ==
    IF i > Len(players) THEN [s |-> s, name |-> s.last_active_player]
    ELSE LET status == Get_PlaybackStatus(players[i], s)
             name == Get_Identity(players[i], s)
         IN  IF ~status.raised /\ status.value = "Playing" /\ ~name.raised
             THEN [s |-> s, name |-> name.value]
             ELSE active_player_loop_unmarked(players, i + 1, s)

RECURSIVE active_player_loop(_, _, _)
\* the loop of get_active_player_name, from player i on: [s, name]
active_player_loop(players, i, s) ==
    IF i > Len(players) THEN [s |-> s, name |-> s.last_active_player]
    ELSE LET status == Get_PlaybackStatus(players[i], s)
             name == Get_Identity(players[i], s)
         IN  IF ~status.raised /\ status.value = "Playing" /\ ~name.raised
             THEN [s |-> [s EXCEPT !.last_active_player = name.value], name |-> name.value]
             ELSE active_player_loop(players, i + 1, s)

get_active_player_name(s) ==
    LET s1 == update_players(s)
        r == active_player_loop(s1.mpris_players, 1, s1)
    IN  [s |-> r.s, ret |-> RetStr(r.name), calls |-> <<>>, raw |-> <<>>]

RECURSIVE player_names_loop(_, _, _, _, _)
\* the loop of get_player_names, from player i on; an exception ends it
player_names_loop(players, i, remove_duplicates, names, s) ==
    IF i > Len(players) THEN names
    ELSE LET name == Get_Identity(players[i], s)
         IN  IF name.raised THEN names
             ELSE IF remove_duplicates /\ \E k \in 1..Len(names) : names[k] = name.value
             THEN player_names_loop(players, i + 1, remove_duplicates, names, s)
             ELSE player_names_loop(players, i + 1, remove_duplicates,
                                    Append(names, name.value), s)

\* reads self.mpris_players as the last refresh left it
get_player_names(s, remove_duplicates) ==
    [s |-> s, ret |-> RetList(player_names_loop(s.mpris_players, 1, remove_duplicates, <<>>, s)),
     calls |-> <<>>, raw |-> <<>>]

\* get_web_thumnail under lru_cache: [s, path]
get_web_thumnail(s, url) ==
    IF \E e \in s.web_cache : e[1] = url
    THEN [s |-> s, path |-> (CHOOSE e \in s.web_cache : e[1] = url)[2]]
    ELSE LET path == download_file(s, url)
         IN  [s |-> [s EXCEPT !.web_cache = @ \cup {<<url, path>>}], path |-> path]

\* the body of the loop of thumbnail for one iface: [s, value]
thumbnail_of(iface, s) ==
    LET metadata == Get_Metadata(iface, s)
        art_url == metadata.value.art_url
    IN  IF metadata.raised THEN [s |-> s, value |-> None]
        ELSE IF ~art_url.present THEN [s |-> s, value |-> None]
        ELSE IF art_url.scheme = "" THEN [s |-> s, value |-> None]
        ELSE IF art_url.scheme = "data:" /\ art_url.encoding = "base64"
        THEN [s |-> s, value |-> art_url.bytes]
        ELSE IF art_url.scheme = "https"
        THEN LET w == get_web_thumnail(s, art_url.rest)
             IN  [s |-> w.s, value |-> w.path]
        ELSE [s |-> s, value |-> art_url.rest]

\* what one iface contributes to status, title and artist
status_of(iface, s) == _get_playback_status(iface, s)

title_of(iface, s) ==
    LET metadata == Get_Metadata(iface, s)
    IN  IF metadata.raised \/ ~metadata.value.has_title THEN None
        ELSE metadata.value.title

artist_of(iface, s) ==
    LET metadata == Get_Metadata(iface, s)
    IN  IF metadata.raised \/ ~metadata.value.has_artist \/ Len(metadata.value.artist) = 0
        THEN None
        ELSE metadata.value.artist[1]

RECURSIVE query_loop(_, _, _, _)
\* the loop of status, title, artist and thumbnail, from iface i on; acc = [s, values]
query_loop(what, ifaces, i, acc) ==
    IF i > Len(ifaces) THEN acc
    ELSE LET r == CASE what = "status" -> [s |-> acc.s, value |-> status_of(ifaces[i], acc.s)]
                    [] what = "title"  -> [s |-> acc.s, value |-> title_of(ifaces[i], acc.s)]
                    [] what = "artist" -> [s |-> acc.s, value |-> artist_of(ifaces[i], acc.s)]
                    [] OTHER           -> thumbnail_of(ifaces[i], acc.s)
         IN  query_loop(what, ifaces, i + 1,
                        [s |-> r.s, values |-> Append(acc.values, r.value)])

query(what, s, player_name) ==
    LET m == get_matching_ifaces(s, player_name)
        acc == query_loop(what, m.ifaces, 1, [s |-> m.s, values |-> <<>>])
    IN  [s |-> acc.s, ret |-> compress_list(acc.values), calls |-> <<>>,
         raw |-> acc.values]

status(s, player_name) == query("status", s, player_name)
title(s, player_name) == query("title", s, player_name)
artist(s, player_name) == query("artist", s, player_name)
thumbnail(s, player_name) == query("thumbnail", s, player_name)

-----------------------------------------------------------------------------
(* The state machine *)

State ==
    [mpris_players |-> mpris_players, previously_playing |-> previously_playing,
     last_active_player |-> last_active_player, web_cache |-> web_cache,
     playback |-> playback, faults |-> faults]

\* MediaController(): both fields empty, and the first update_players has listed the bus
Constructed(pb) ==
    [mpris_players |-> filter_mpris(list_names, 1), previously_playing |-> {},
     last_active_player |-> None, web_cache |-> {},
     playback |-> pb, faults |-> {}]

Idle == [op |-> "none", handler |-> "none", player_name |-> None,
         pre |-> Constructed([p \in Players |-> "Stopped"]),
         calls |-> <<>>, raw |-> <<>>, ret |-> RetNone]

Init ==
    /\ \E pb \in [Players -> Statuses] :
          /\ mpris_players = Constructed(pb).mpris_players
          /\ previously_playing = Constructed(pb).previously_playing
          /\ last_active_player = Constructed(pb).last_active_player
          /\ web_cache = Constructed(pb).web_cache
          /\ playback = Constructed(pb).playback
          /\ faults = Constructed(pb).faults
    /\ last = Idle
    /\ found_playing = {}
    /\ arg = <<>>

\* The players a call with this filter is about: their display name can be read, and
\* it is the filter's when the filter names one
TargetsOf(s, player_name) ==
    {p \in Players : /\ <<p, "Identity">> \notin s.faults
                     /\ (player_name \in {None, ""} \/ player_name = Identity(p))}

\* The players whose status reads as "Playing"
ReadAsPlaying(s) ==
    {p \in Players : <<p, "PlayerProperty">> \notin s.faults /\ s.playback[p] = "Playing"}

PlayingAmong(s, player_name) == TargetsOf(s, player_name) \cap ReadAsPlaying(s)

\* The host is single-threaded: it makes a call once it has taken the result of the
\* one before
Ready == last.op = "none"

\* A public call op(player_name) that ran handler and came back with r = [s, ret, calls]
Returns(op, handler, player_name, r) ==
    /\ Ready
    /\ mpris_players' = r.s.mpris_players
    /\ previously_playing' = r.s.previously_playing
    /\ last_active_player' = r.s.last_active_player
    /\ web_cache' = r.s.web_cache
    /\ playback' = r.s.playback
    /\ faults' = r.s.faults
    /\ last' = [op |-> op, handler |-> handler, player_name |-> player_name,
                pre |-> State, calls |-> r.calls, raw |-> r.raw, ret |-> r.ret]
    /\ found_playing' =
          IF handler = "pause" /\ PlayingAmong(State, player_name) # {}
          THEN PlayingAmong(State, player_name)
          ELSE IF handler = "play" THEN {}
          ELSE found_playing
    /\ arg' = arg

DoPause(player_name) == Returns("pause", "pause", player_name, pause(State, player_name))

DoPlay(player_name) == Returns("play", "play", player_name, play(State, player_name))

DoToggle(player_name) ==
    LET r == toggle(State, player_name)
    IN  Returns("toggle", r.handler, player_name, r)

DoStop(player_name) == Returns("stop", "stop", player_name, stop(State, player_name))

DoNext(player_name) == Returns("next", "next", player_name, next(State, player_name))

DoPrevious(player_name) ==
    Returns("previous", "previous", player_name, previous(State, player_name))

DoStatus(player_name) == Returns("status", "status", player_name, status(State, player_name))

DoTitle(player_name) == Returns("title", "title", player_name, title(State, player_name))

DoArtist(player_name) == Returns("artist", "artist", player_name, artist(State, player_name))

DoThumbnail(player_name) ==
    Returns("thumbnail", "thumbnail", player_name, thumbnail(State, player_name))

DoGetActivePlayerName ==
    Returns("get_active_player_name", "get_active_player_name", None,
            get_active_player_name(State))

DoGetPlayerNames(remove_duplicates) ==
    Returns("get_player_names", "get_player_names", None,
            get_player_names(State, remove_duplicates))

\* A player changes its playback status on its own (its user, the end of a track)
PlayerChanges(p, st) ==
    /\ Ready
    /\ playback[p] # st
    /\ playback' = [playback EXCEPT ![p] = st]
    /\ last' = Idle
    /\ UNCHANGED <<mpris_players, previously_playing, last_active_player, web_cache,
                   faults, found_playing, arg>>

\* A call starts to fail: a player hangs or lacks a method, the bus or the network is
\* down.  One failure at a time.
Breaks(fp) ==
    /\ Ready
    /\ faults = {}
    /\ faults' = faults \cup {fp}
    /\ last' = Idle
    /\ UNCHANGED <<mpris_players, previously_playing, last_active_player, web_cache,
                   playback, found_playing, arg>>

\* ... and works again
Recovers(fp) ==
    /\ Ready
    /\ fp \in faults
    /\ faults' = faults \ {fp}
    /\ last' = Idle
    /\ UNCHANGED <<mpris_players, previously_playing, last_active_player, web_cache,
                   playback, found_playing, arg>>

\* The host takes the result of the call
TakeResult ==
    /\ ~Ready
    /\ last' = Idle
    /\ UNCHANGED <<mpris_players, previously_playing, last_active_player, web_cache,
                   playback, faults, found_playing, arg>>

Next ==
    \/ \E player_name \in Filters : DoPause(player_name)
    \/ \E player_name \in Filters : DoPlay(player_name)
    \/ \E player_name \in Filters : DoToggle(player_name)
    \/ \E player_name \in Filters : DoStop(player_name)
    \/ \E player_name \in Filters : DoNext(player_name)
    \/ \E player_name \in Filters : DoPrevious(player_name)
    \/ \E player_name \in Filters : DoStatus(player_name)
    \/ \E player_name \in Filters : DoTitle(player_name)
    \/ \E player_name \in Filters : DoArtist(player_name)
    \/ \E player_name \in Filters : DoThumbnail(player_name)
    \/ DoGetActivePlayerName
    \/ \E remove_duplicates \in BOOLEAN : DoGetPlayerNames(remove_duplicates)
    \/ \E p \in Players, st \in Statuses : PlayerChanges(p, st)
    \/ \E fp \in FaultPoints : Breaks(fp)
    \/ \E fp \in FaultPoints : Recovers(fp)
    \/ TakeResult

Spec == Init /\ [][Next]_vars

\* The commands and the marker alone: the calls that change players or fields other
\* than the memo table
NextCommands ==
    \/ \E player_name \in Filters : DoPause(player_name)
    \/ \E player_name \in Filters : DoPlay(player_name)
    \/ \E player_name \in Filters : DoToggle(player_name)
    \/ \E player_name \in Filters : DoStop(player_name)
    \/ \E player_name \in Filters : DoNext(player_name)
    \/ \E player_name \in Filters : DoPrevious(player_name)
    \/ DoGetActivePlayerName
    \/ \E p \in Players, st \in Statuses : PlayerChanges(p, st)
    \/ \E fp \in FaultPoints : Breaks(fp)
    \/ \E fp \in FaultPoints : Recovers(fp)
    \/ TakeResult

SpecCommands == Init /\ [][NextCommands]_vars

-----------------------------------------------------------------------------
(* compress_list on its own, over every list of at most MaxLen results *)

Values == {None, PyTrue, PyFalse, "Playing", "Paused"}

Lists == UNION {[1..n -> Values] : n \in 0..MaxLen}

CompressList(l) ==
    /\ arg' = l
    /\ last' = [Idle EXCEPT !.op = "compress_list", !.handler = "compress_list",
                            !.ret = compress_list(l)]
    /\ UNCHANGED <<mpris_players, previously_playing, last_active_player, web_cache,
                   playback, faults, found_playing>>

NextCompress == \E l \in Lists : CompressList(l)

InitCompress ==
    /\ mpris_players = Idle.pre.mpris_players
    /\ previously_playing = Idle.pre.previously_playing
    /\ last_active_player = Idle.pre.last_active_player
    /\ web_cache = Idle.pre.web_cache
    /\ playback = Idle.pre.playback
    /\ faults = Idle.pre.faults
    /\ last = Idle
    /\ found_playing = {}
    /\ arg = <<>>

SpecCompress == InitCompress /\ [][NextCompress]_vars

-----------------------------------------------------------------------------
(* What the last call was about.  An "endpoint" below is a player whose display
   name can be read: get_matching_players and get_active_player_name pass over a
   player whose Identity read raises. *)

BusNameOf(p) == <<MprisPrefix, p>>

\* The players on which the last call invoked the method
Invoked(method) ==
    {p \in Players : \E k \in 1..Len(last.calls) : last.calls[k] = <<method, BusNameOf(p)>>}

RECURSIVE InOrder(_)
\* A set of players as a list in registry order
InOrder(S) ==
    IF S = {} THEN <<>>
    ELSE LET m == CHOOSE x \in S : \A y \in S : x <= y
         IN  <<m>> \o InOrder(S \ {m})

\* The targets of the last call that read as "Playing" when it started
PlayingTargets == TargetsOf(last.pre, last.player_name) \cap ReadAsPlaying(last.pre)

\* C1: pause-then-play round trip.  An unscoped pause that finds a non-empty set P of
\* endpoints playing leaves the resume set equal to the bus names of P, and the resume
\* set holds the bus names found by the last such pause until a play completes; an unscoped
\* play that starts with a non-empty resume set invokes Play on exactly the endpoints
\* whose bus name is in it, leaves the status of every other player as it was, and
\* leaves the resume set empty; an unscoped play that starts with an empty resume
\* set invokes Play on every endpoint.
PauseThenPlayRoundTrip ==
    /\ previously_playing = {BusNameOf(p) : p \in found_playing}
    /\ (last.op = "pause" /\ last.player_name = None /\ PlayingTargets # {})
          => previously_playing = {BusNameOf(p) : p \in PlayingTargets}
    /\ (last.op = "play" /\ last.player_name = None /\ last.pre.previously_playing # {})
          => /\ Invoked("Play") = {p \in TargetsOf(last.pre, None) :
                                      BusNameOf(p) \in last.pre.previously_playing}
             /\ \A p \in Players \ Invoked("Play") : playback[p] = last.pre.playback[p]
             /\ previously_playing = {}
    /\ (last.op = "play" /\ last.player_name = None /\ last.pre.previously_playing = {})
          => Invoked("Play") = TargetsOf(last.pre, None)

\* an unscoped play resumed some endpoints of the resume set and passed over another
RoundTripHappens ==
    /\ last.op = "play" /\ last.player_name = None
    /\ last.pre.previously_playing # {}
    /\ Invoked("Play") # {}
    /\ TargetsOf(last.pre, None) \ Invoked("Play") # {}
    /\ previously_playing = {}

\* C2: after pause(filter), if some target read as "Playing" the resume set is exactly
\* the bus names of the targets that did (what it held before is gone), and if none
\* did the resume set is what it was before the call.
PauseSetsResumeSet ==
    last.handler = "pause" =>
        IF PlayingTargets # {}
        THEN previously_playing = {BusNameOf(p) : p \in PlayingTargets}
        ELSE previously_playing = last.pre.previously_playing

\* a pause replaced a resume set holding a bus name that was not playing this time
PauseReplaces ==
    /\ last.handler = "pause"
    /\ PlayingTargets # {}
    /\ \E b \in last.pre.previously_playing : b \notin previously_playing

ToggleIsPauseOrPlay ==
    last.op = "toggle" =>
        LET r == IF PlayingTargets # {}
                 THEN pause(last.pre, last.player_name)
                 ELSE play(last.pre, last.player_name)
        IN  /\ State = r.s
            /\ last.calls = r.calls
            /\ last.raw = r.raw
            /\ last.ret = r.ret

\* a toggle paused although its first target was not playing
TogglePauses ==
    /\ last.op = "toggle" /\ last.handler = "pause"
    /\ \E p \in TargetsOf(last.pre, last.player_name) \ ReadAsPlaying(last.pre) :
          \E q \in PlayingTargets : p < q

\* C5 as claimed: pause invokes Pause on a target only if its status read as "Playing".
PauseOnlyIfPlaying ==
    last.handler = "pause" => Invoked("Pause") \subseteq ReadAsPlaying(last.pre)

\* C5, amended: pause invokes Pause once on every target, whatever its status read
\* as; the status decides only whether the target is recorded in the resume set.
PauseInvokedOnEveryTarget ==
    last.handler = "pause" =>
        LET targets == InOrder(TargetsOf(last.pre, last.player_name))
        IN  last.calls = [k \in 1..Len(targets) |-> <<"Pause", BusNameOf(targets[k])>>]

\* a pause invoked Pause on a target that did not read as "Playing"
PauseOnNotPlaying ==
    /\ last.handler = "pause"
    /\ Invoked("Pause") \ ReadAsPlaying(last.pre) # {}

Commands == {"pause", "play", "stop", "next", "previous"}

MethodOf(handler) ==
    CASE handler = "pause" -> "Pause" [] handler = "play" -> "Play"
      [] handler = "stop" -> "Stop" [] handler = "next" -> "Next"
      [] OTHER -> "Previous"

Run(handler, s, player_name) ==
    CASE handler = "pause" -> pause(s, player_name)
      [] handler = "play" -> play(s, player_name)
      [] handler = "stop" -> stop(s, player_name)
      [] handler = "next" -> next(s, player_name)
      [] OTHER -> previous(s, player_name)

\* C6: when the method call of a command fails on a target, the command still returns
\* one result per target, the result of that target is False, and every other target
\* gets the call and the result it gets when no method call fails.
FailureIsolation ==
    last.handler \in Commands =>
        LET targets == InOrder(TargetsOf(last.pre, last.player_name))
            healthy == Run(last.handler,
                           [last.pre EXCEPT !.faults = @ \ (Players \X {"PlayerMethod"})],
                           last.player_name)
            fails(p) == /\ <<p, "PlayerMethod">> \in last.pre.faults
                        /\ p \in Invoked(MethodOf(last.handler))
        IN  /\ Len(last.raw) = Len(targets)
            /\ last.calls = healthy.calls
            /\ \A k \in 1..Len(targets) :
                  last.raw[k] = IF fails(targets[k]) THEN PyFalse ELSE healthy.raw[k]

\* a command failed on one target and went on to succeed on a later one
FailureIsIsolated ==
    /\ last.handler \in Commands
    /\ \E k \in 1..Len(last.raw) : \E j \in 1..Len(last.raw) :
          k < j /\ last.raw[k] = PyFalse /\ last.raw[j] = PyTrue
    /\ Cardinality(Invoked(MethodOf(last.handler))) >= 2

\* C7: compress_list returns None for the empty list, the list of its first element
\* when every element equals the first, and the list itself otherwise.
CompressionIsRight ==
    last.op = "compress_list" =>
        IF arg = <<>> THEN last.ret = RetNone
        ELSE IF \A i \in 1..Len(arg) : arg[i] = arg[1] THEN last.ret = RetList(<<arg[1]>>)
        ELSE last.ret = RetList(arg)

\* a list of three equal results was collapsed to one
CompressionCollapses ==
    /\ last.op = "compress_list"
    /\ Len(arg) = 3 /\ arg[1] = None /\ arg[2] = None /\ arg[3] = None
    /\ last.ret = RetList(<<None>>)

\* C8: get_active_player_name returns the display name of the first endpoint, in
\* registry order, that reads as "Playing" and stores it in the marker; when none
\* does it returns the marker and leaves it as it was.  No step sets a marker that
\* holds a name back to None.
LastActiveMarker ==
    /\ [](last.op = "get_active_player_name" =>
            LET playing == TargetsOf(last.pre, None) \cap ReadAsPlaying(last.pre)
            IN  IF playing # {}
                THEN LET first == CHOOSE p \in playing : \A q \in playing : p <= q
                     IN  /\ last.ret = RetStr(Identity(first))
                         /\ last_active_player = Identity(first)
                ELSE /\ last.ret = RetStr(last.pre.last_active_player)
                     /\ last_active_player = last.pre.last_active_player)
    /\ [][last_active_player # None => last_active_player' # None]_vars

\* with two endpoints of different names playing, the first was returned and replaced
\* the other's name in the marker
MarkerFollowsFirstPlaying ==
    /\ last.op = "get_active_player_name"
    /\ \E p \in ReadAsPlaying(last.pre) : \E q \in ReadAsPlaying(last.pre) :
          p < q /\ Identity(p) # Identity(q) /\ last_active_player = Identity(p)
                /\ last.pre.last_active_player = Identity(q)

\* C9 as claimed: play("") with a non-empty resume set invokes Play only on the
\* endpoints whose bus name is in the resume set, and reports True for the others.
EmptyFilterIsUnscopedPlay ==
    (last.handler = "play" /\ last.player_name = "" /\ last.pre.previously_playing # {}) =>
        /\ Invoked("Play") = {p \in TargetsOf(last.pre, "") :
                                 BusNameOf(p) \in last.pre.previously_playing}
        /\ LET targets == InOrder(TargetsOf(last.pre, ""))
           IN  \A k \in 1..Len(targets) :
                  targets[k] \notin Invoked("Play") => last.raw[k] = PyTrue

\* C10: the resume set is non-empty only if a pause has found a player playing and no
\* play has completed since; a call that runs neither pause nor play (toggle runs one
\* of the two) leaves the resume set as it was.
ResumeSetInvariant ==
    /\ previously_playing # {} => found_playing # {}
    /\ (last.op # "none" /\ last.handler \notin {"pause", "play", "compress_list"})
          => previously_playing = last.pre.previously_playing

\* an armed resume set was still there after a stop, next or previous
ResumeSetSurvivesOtherCalls ==
    /\ last.handler \in {"stop", "next", "previous"}
    /\ last.calls # <<>>
    /\ previously_playing # {}
    /\ found_playing # {}

====
